---------------------------- MODULE Spec2Model ----------------------------
(***************************************************************************)
(* A model of scm.go, a minimal Scheme interpreter: the reader (tokenize,  *)
(* readFrom), the evaluator (eval, apply, env.Find), the primitives of     *)
(* globalenv and the read-eval-print loop Repl.                            *)
(*                                                                         *)
(* Go values are records tagged by their dynamic type in field t.  An      *)
(* environment pointer is an index into heap, 0 is the nil pointer         *)
(* and 1 is &globalenv.  A panic is not recovered anywhere in scm.go, so   *)
(* it ends the process: a result carries the panic message in field panic  *)
(* ("" when the call returned) and every caller passes it on unchanged.    *)
(* Numbers are float64 in the source; the input lines of this model only   *)
(* compute with small integers, which float64 represents exactly.          *)
(***************************************************************************)
EXTENDS Integers, Sequences, FiniteSets, TLC

VARIABLES
    heap,    \* the environments allocated so far; heap[1] is globalenv
    status,  \* "running", "exited" (end of input) or "panicked"
    fault,   \* the message of the panic that ended the process, or ""
    line,    \* the input line Repl read last (a sequence of lexemes)
    out,     \* what Repl printed after "==>" for that line
    log,     \* what the log package printed while that line was handled
    nread,   \* number of lines read so far
    tokens,  \* reader specification: the token list handed to readFrom
    parsed   \* reader specification: <<>>, then <<what readFrom returned>>

vars == <<heap, status, fault, line, out, log, nread, tokens, parsed>>

(***************************************************************************)
(* Bounds of the model.                                                    *)
(***************************************************************************)
MaxLines == 4
MaxTokens == 4

(***************************************************************************)
(* Values: type expr / type value, symbol, number, bool, string, proc,     *)
(* func, and the nil interface.                                            *)
(***************************************************************************)
Nil == [t |-> "nil"]
number(n) == [t |-> "number", n |-> n]
symbol(s) == [t |-> "symbol", s |-> s]
List(l) == [t |-> "list", l |-> l]
Bool(b) == [t |-> "bool", b |-> b]
Str(s) == [t |-> "string", str |-> s]
proc(params, body, en) ==
    [t |-> "proc", params |-> params, body |-> body, en |-> en]
func(name) == [t |-> "func", name |-> name]

(***************************************************************************)
(* Run-time panics of the Go runtime, and the messages scm.go logs.        *)
(***************************************************************************)
NilDeref == "invalid memory address or nil pointer dereference"
IndexRange == "index out of range"
Conversion == "interface conversion"
LogUnknownExpr == "Unknown expression type - EVAL"
LogUnknownProc == "Unknown procedure type - APPLY"
LogEOF == "unexpected EOF while reading"
LogClose == "unexpected )"

Return(v, h, lg) == [v |-> v, h |-> h, log |-> lg, panic |-> ""]
Panic(msg, h, lg) == [v |-> Nil, h |-> h, log |-> lg, panic |-> msg]

(***************************************************************************)
(* Environments.                                                           *)
(***************************************************************************)
NoVars == [s \in {} |-> Nil]
env(vs, outer) == [vars |-> vs, outer |-> outer]

\* m[k] on a Go map: the zero value (nil interface) when k is absent
MapGet(vs, s) == IF s \in DOMAIN vs THEN vs[s] ELSE Nil

\* m[k] = v on a Go map
MapSet(vs, s, v) == [x \in (DOMAIN vs) \cup {s} |-> IF x = s THEN v ELSE vs[x]]


\* Find as it would be if the end of the chain were answered with the outermost
\* environment instead of a nil dereference
RECURSIVE FindOrOutermost(_, _, _)
FindOrOutermost(s, en, h) ==
    IF en = 0 THEN 0
    ELSE IF s \in DOMAIN h[en].vars THEN en
    ELSE IF h[en].outer = 0 THEN en
    ELSE FindOrOutermost(s, h[en].outer, h)

\* env.Find: the environment on the chain from en outwards that binds s.  The
\* method has a value receiver, so e.outer.Find(s) with e.outer == nil
\* dereferences nil and panics: 0 stands for that panic.  The env returned is a
\* copy of the struct, but its vars map is the same map, so the caller's write
\* through it changes the environment itself: the model returns its index.
RECURSIVE Find(_, _, _)
Find(s, en, h) ==
    IF en = 0 THEN 0
    ELSE IF s \in DOMAIN h[en].vars THEN en
    ELSE Find(s, h[en].outer, h)

(***************************************************************************)
(* Primitives: the funcs of globalenv.                                     *)
(***************************************************************************)
Fold(name, v, i) ==
    CASE name = "+" -> v + i
      [] name = "-" -> v - i
      [] name = "*" -> v * i
      [] name = "/" -> v \div i    \* exact for the quotients the input lines form

RECURSIVE Reduce(_, _, _, _)
\* the loop  for _, i := range a[1:] { v op= i.(number) }  from index k on;
\* Nil stands for the panic of a failed type assertion i.(number)
Reduce(name, v, a, k) ==
    IF k > Len(a) THEN number(v)
    ELSE IF a[k].t # "number" THEN Nil
    ELSE Reduce(name, Fold(name, v, a[k].n), a, k + 1)

\* p(args...) for the func bound to name
CallFunc(name, a, h, lg) ==
    IF name = "<=" THEN
        IF Len(a) < 1 THEN Panic(IndexRange, h, lg)
        ELSE IF a[1].t # "number" THEN Panic(Conversion, h, lg)
        ELSE IF Len(a) < 2 THEN Panic(IndexRange, h, lg)
        ELSE IF a[2].t # "number" THEN Panic(Conversion, h, lg)
        ELSE Return(Bool(a[1].n <= a[2].n), h, lg)
    ELSE
        IF Len(a) < 1 THEN Panic(IndexRange, h, lg)
        ELSE IF a[1].t # "number" THEN Panic(Conversion, h, lg)
        ELSE LET v == Reduce(name, a[1].n, a, 2)
             IN  IF v = Nil THEN Panic(Conversion, h, lg) ELSE Return(v, h, lg)

globalenv ==
    env([s \in {"#t", "#f", "+", "-", "*", "/", "<="} |->
            CASE s = "#t" -> Bool(TRUE)
              [] s = "#f" -> Bool(FALSE)
              [] OTHER -> func(s)],
        0)

(***************************************************************************)
(* Eval / Apply.  A result is [v, h, log, panic]: the value returned, the  *)
(* environments and the log after the call, and the panic that ended it.   *)
(***************************************************************************)
RECURSIVE eval(_, _, _, _), apply(_, _, _, _)
RECURSIVE evalIf(_, _, _, _), evalSet(_, _, _, _), evalDefine(_, _, _, _)
RECURSIVE evalBegin(_, _, _, _, _, _), evalOperands(_, _, _, _, _, _)
RECURSIVE evalApplication(_, _, _, _)

\* case symbol("quote"): re = e[1]
evalQuote(e, en, h, lg) ==
    IF Len(e) < 2 THEN Panic(IndexRange, h, lg) ELSE Return(e[2], h, lg)

\* case symbol("if")
evalIf(e, en, h, lg) ==
    IF Len(e) < 2 THEN Panic(IndexRange, h, lg)
    ELSE LET c == eval(e[2], en, h, lg)
         IN  IF c.panic # "" THEN c
             ELSE IF c.v.t # "bool" THEN Panic(Conversion, c.h, c.log)
             ELSE IF c.v.b THEN
                 IF Len(e) < 3 THEN Panic(IndexRange, c.h, c.log)
                 ELSE eval(e[3], en, c.h, c.log)
             ELSE
                 IF Len(e) < 4 THEN Panic(IndexRange, c.h, c.log)
                 ELSE eval(e[4], en, c.h, c.log)

\* set! as it would be if it wrote en.vars[v], the current environment
evalSetLocal(e, en, h, lg) ==
    IF Len(e) < 2 THEN Panic(IndexRange, h, lg)
    ELSE IF e[2].t # "symbol" THEN Panic(Conversion, h, lg)
    ELSE IF Find(e[2].s, en, h) = 0 THEN Panic(NilDeref, h, lg)
    ELSE IF Len(e) < 3 THEN Panic(IndexRange, h, lg)
    ELSE LET r == eval(e[3], en, h, lg)
         IN  IF r.panic # "" THEN r
             ELSE Return(Str("ok"),
                         [r.h EXCEPT ![en].vars = MapSet(@, e[2].s, r.v)],
                         r.log)

\* case symbol("set!"):  v := e[1].(symbol)
\*                       en.Find(v).vars[v] = eval(e[2], en)
\* Go calls the functions of one statement in lexical left-to-right order, so
\* en.Find(v) is called, and the map to write is fixed, before eval(e[2], en).
evalSet(e, en, h, lg) ==
    IF Len(e) < 2 THEN Panic(IndexRange, h, lg)
    ELSE IF e[2].t # "symbol" THEN Panic(Conversion, h, lg)
    ELSE LET v == e[2].s
             f == Find(v, en, h)
         IN  IF f = 0 THEN Panic(NilDeref, h, lg)
             ELSE IF Len(e) < 3 THEN Panic(IndexRange, h, lg)
             ELSE LET r == eval(e[3], en, h, lg)
                  IN  IF r.panic # "" THEN r
                      ELSE Return(Str("ok"),
                                  [r.h EXCEPT ![f].vars = MapSet(@, v, r.v)],
                                  r.log)

\* define as it would be if it wrote the nearest environment that binds the
\* symbol already, and the current one only when none does
evalDefineNearest(e, en, h, lg) ==
    IF Len(e) < 2 THEN Panic(IndexRange, h, lg)
    ELSE IF e[2].t # "symbol" THEN Panic(Conversion, h, lg)
    ELSE IF Len(e) < 3 THEN Panic(IndexRange, h, lg)
    ELSE LET r == eval(e[3], en, h, lg)
             f == IF Find(e[2].s, en, r.h) = 0 THEN en ELSE Find(e[2].s, en, r.h)
         IN  IF r.panic # "" THEN r
             ELSE Return(Str("ok"),
                         [r.h EXCEPT ![f].vars = MapSet(@, e[2].s, r.v)],
                         r.log)

\* case symbol("define"):  en.vars[e[1].(symbol)] = eval(e[2], en)
evalDefine(e, en, h, lg) ==
    IF Len(e) < 2 THEN Panic(IndexRange, h, lg)
    ELSE IF e[2].t # "symbol" THEN Panic(Conversion, h, lg)
    ELSE IF Len(e) < 3 THEN Panic(IndexRange, h, lg)
    ELSE LET r == eval(e[3], en, h, lg)
         IN  IF r.panic # "" THEN r
             ELSE Return(Str("ok"),
                         [r.h EXCEPT ![en].vars = MapSet(@, e[2].s, r.v)],
                         r.log)

\* lambda as it would be if the closure held a copy of the environment
evalLambdaCopying(e, en, h, lg) ==
    IF Len(e) < 2 THEN Panic(IndexRange, h, lg)
    ELSE IF e[2].t # "list" THEN Panic(Conversion, h, lg)
    ELSE IF \E i \in 1..Len(e[2].l) : e[2].l[i].t # "symbol"
         THEN Panic(Conversion, h, lg)
    ELSE IF Len(e) < 3 THEN Panic(IndexRange, h, lg)
    ELSE Return(proc([i \in 1..Len(e[2].l) |-> e[2].l[i].s], e[3], Len(h) + 1),
                Append(h, h[en]), lg)

\* case symbol("lambda"):  ps := e[1].([]expr); params[i] = p.(symbol);
\*                         re = proc{params, e[2], en}
\* The closure holds the pointer en: the environment itself, not a copy.
evalLambda(e, en, h, lg) ==
    IF Len(e) < 2 THEN Panic(IndexRange, h, lg)
    ELSE IF e[2].t # "list" THEN Panic(Conversion, h, lg)
    ELSE IF \E i \in 1..Len(e[2].l) : e[2].l[i].t # "symbol"
         THEN Panic(Conversion, h, lg)
    ELSE IF Len(e) < 3 THEN Panic(IndexRange, h, lg)
    ELSE Return(proc([i \in 1..Len(e[2].l) |-> e[2].l[i].s], e[3], en), h, lg)

\* case symbol("begin"):  for _, i := range e[1:] { re = eval(i, en) }
\* from element k on, re being the value so far
evalBegin(e, k, re, en, h, lg) ==
    IF k > Len(e) THEN Return(re, h, lg)
    ELSE LET r == eval(e[k], en, h, lg)
         IN  IF r.panic # "" THEN r
             ELSE evalBegin(e, k + 1, r.v, en, r.h, r.log)

\* for i, x := range operands { values[i] = eval(x, en) }  from element k of e
\* on, values holding the operands evaluated so far; the result's v is the
\* list of values
evalOperands(e, k, values, en, h, lg) ==
    IF k > Len(e) THEN Return(List(values), h, lg)
    ELSE LET r == eval(e[k], en, h, lg)
         IN  IF r.panic # "" THEN r
             ELSE evalOperands(e, k + 1, Append(values, r.v), en, r.h, r.log)

\* default:  the operands first, left to right, then eval(e[0], en), then apply
evalApplication(e, en, h, lg) ==
    LET a == evalOperands(e, 2, <<>>, en, h, lg)
    IN  IF a.panic # "" THEN a
        ELSE LET p == eval(e[1], en, a.h, a.log)
             IN  IF p.panic # "" THEN p
                 ELSE apply(p.v, a.v.l, p.h, p.log)

eval(e, en, h, lg) ==
    CASE e.t = "number" -> Return(e, h, lg)
      [] e.t = "symbol" ->
            LET f == Find(e.s, en, h)
            IN  IF f = 0 THEN Panic(NilDeref, h, lg)
                ELSE Return(MapGet(h[f].vars, e.s), h, lg)
      [] e.t = "list" ->
            IF Len(e.l) = 0 THEN Panic(IndexRange, h, lg)    \* e[0]
            ELSE IF e.l[1] = symbol("quote") THEN evalQuote(e.l, en, h, lg)
            ELSE IF e.l[1] = symbol("if") THEN evalIf(e.l, en, h, lg)
            ELSE IF e.l[1] = symbol("set!") THEN evalSet(e.l, en, h, lg)
            ELSE IF e.l[1] = symbol("define") THEN evalDefine(e.l, en, h, lg)
            ELSE IF e.l[1] = symbol("lambda") THEN evalLambda(e.l, en, h, lg)
            ELSE IF e.l[1] = symbol("begin")
                 THEN evalBegin(e.l, 2, Nil, en, h, lg)
            ELSE evalApplication(e.l, en, h, lg)
      [] OTHER -> Return(Nil, h, Append(lg, LogUnknownExpr))

\* for i := range p.params { en.vars[p.params[i]] = args[i] }: the bindings made
\* when the loop ends or args[i] panics
RECURSIVE BindParams(_, _, _, _)
BindParams(params, args, k, vs) ==
    IF k > Len(params) \/ k > Len(args) THEN vs
    ELSE BindParams(params, args, k + 1, MapSet(vs, params[k], args[k]))

apply(p, args, h, lg) ==
    CASE p.t = "func" -> CallFunc(p.name, args, h, lg)
      [] p.t = "proc" ->
            LET en == Len(h) + 1    \* en := &env{make(vars), p.en}
                h1 == Append(h, env(BindParams(p.params, args, 1, NoVars), p.en))
            IN  IF Len(args) < Len(p.params) THEN Panic(IndexRange, h1, lg)
                ELSE eval(p.body, en, h1, lg)
      [] OTHER -> Return(Nil, h, Append(lg, LogUnknownProc))

(***************************************************************************)
(* Parsing.  An input line is a sequence of lexemes: "(", ")", " " and     *)
(* words, a word being a maximal run of other characters.  A token is a    *)
(* Go string; the token a piece of the split line forms is its one lexeme  *)
(* (or "" for an empty piece), which is exact for the lines in which no    *)
(* "(" follows a word or ")" directly and no word follows ")" directly     *)
(* (Spaced); Repl only reads such lines here.                              *)
(***************************************************************************)
RECURSIVE Replace(_, _, _)
\* strings.Replace(s, old, new, -1), old being one character
Replace(s, old, new) ==
    IF s = <<>> THEN <<>>
    ELSE (IF Head(s) = old THEN new ELSE <<Head(s)>>) \o Replace(Tail(s), old, new)

RECURSIVE Split(_, _)
\* strings.Split(s, " "): the pieces between the spaces, piece being the one
\* under construction
Split(s, piece) ==
    IF s = <<>> THEN <<piece>>
    ELSE IF Head(s) = " " THEN <<piece>> \o Split(Tail(s), <<>>)
    ELSE Split(Tail(s), Append(piece, Head(s)))

Pieces(s) == Split(Replace(Replace(s, "(", <<"(", " ">>), ")", <<" ", ")">>), <<>>)

Spaced(s) == LET ps == Pieces(s) IN \A i \in 1..Len(ps) : Len(ps[i]) <= 1

\* Lexical Analysis
tokenize(s) ==
    LET ps == Pieces(s)
    IN  [i \in 1..Len(ps) |-> IF ps[i] = <<>> THEN "" ELSE ps[i][1]]

\* strconv.ParseFloat(token, 64) on the numerals the input lines are made of:
\* the number, or 0 - 1 for err != nil
Numerals == <<"0", "1", "2", "3", "4", "5", "6", "7", "8", "9">>
ParseFloat(token) ==
    IF \E i \in 1..Len(Numerals) : Numerals[i] = token
    THEN (CHOOSE i \in 1..Len(Numerals) : Numerals[i] = token) - 1
    ELSE 0 - 1

\* What readFrom leaves: the expression returned, *tokens, the log, the panic
Read(e, rest, lg) == [e |-> e, rest |-> rest, log |-> lg, panic |-> ""]
ReadPanic(msg, rest, lg) == [e |-> Nil, rest |-> rest, log |-> lg, panic |-> msg]

RECURSIVE readFrom(_, _), readList(_, _, _)

\* the list loop as it would be if it ended at the end of the tokens too
readListLenient(L, toks, lg) ==
    IF Len(toks) = 0 THEN Read(List(L), toks, lg)
    ELSE IF toks[1] = ")" THEN Read(List(L), Tail(toks), lg)
    ELSE LET r == readFrom(toks, lg)
         IN  IF r.panic # "" THEN r
             ELSE readList(Append(L, r.e), r.rest, r.log)

\* case "(":  the loop that appends readFrom(tokens) to L until the first
\*            token is ")", then pops that token and returns L
readList(L, toks, lg) ==
    IF Len(toks) = 0 THEN ReadPanic(IndexRange, toks, lg)    \* tokens[0]
    ELSE IF toks[1] = ")" THEN Read(List(L), Tail(toks), lg)
    ELSE LET r == readFrom(toks, lg)
         IN  IF r.panic # "" THEN r
             ELSE readList(Append(L, r.e), r.rest, r.log)

\* Syntactic Analysis
readFrom(toks, lg) ==
    IF Len(toks) = 0
    THEN ReadPanic(IndexRange, toks, Append(lg, LogEOF))     \* tokens[0]
    ELSE LET token == toks[1]
             rest == Tail(toks)
         IN  IF token = "(" THEN readList(<<>>, rest, lg)
             ELSE IF token = ")" THEN Read(Nil, rest, Append(lg, LogClose))
             ELSE IF ParseFloat(token) >= 0
                  THEN Read(number(ParseFloat(token)), rest, lg)
             ELSE Read(symbol(token), rest, lg)

read(s) == readFrom(tokenize(s), <<>>)

(***************************************************************************)
(* Interactivity.  What String returns is a Go string; the model keeps it  *)
(* as the sequence of its parts: the parentheses and spaces String writes, *)
(* and fmt.Sprint of each value that is not a list.                        *)
(***************************************************************************)
Lit(s) == [lit |-> s]
Sprint(e) == [sprint |-> e]

RECURSIVE String(_), Join(_, _)
\* strings.Join(v, " ") with v[i] = String(x), from element k on
Join(l, k) ==
    IF k > Len(l) THEN <<>>
    ELSE IF k = Len(l) THEN String(l[k])
    ELSE String(l[k]) \o <<Lit(" ")>> \o Join(l, k + 1)

String(e) ==
    IF e.t = "list" THEN <<Lit("(")>> \o Join(e.l, 1) \o <<Lit(")")>>
    ELSE <<Sprint(e)>>

(***************************************************************************)
(* The lines typed at the prompt.                                          *)
(***************************************************************************)
\* (define n 1)
LnDefN ==
    <<"(", "define", " ", "n", " ", "1", ")">>

\* (set! n 2)
LnSetN ==
    <<"(", "set!", " ", "n", " ", "2", ")">>

\* n
LnN ==
    <<"n">>

\* (define getn (lambda (u) n))
LnDefGetn ==
    <<"(", "define", " ", "getn", " ", "(", "lambda", " ", "(", "u", ")",
      " ", "n", ")", ")">>

\* (getn 0)
LnGetn ==
    <<"(", "getn", " ", "0", ")">>

\* ((lambda (n) (getn n)) 7)
LnCallerBindsN ==
    <<"(", "(", "lambda", " ", "(", "n", ")", " ", "(", "getn", " ", "n",
      ")", ")", " ", "7", ")">>

\* (define make-adder (lambda (n) (lambda (x) (+ x n))))
LnDefMakeAdder ==
    <<"(", "define", " ", "make-adder", " ", "(", "lambda", " ", "(", "n",
      ")", " ", "(", "lambda", " ", "(", "x", ")", " ", "(", "+", " ",
      "x", " ", "n", ")", ")", ")", ")">>

\* (define add5 (make-adder 5))
LnDefAdd5 ==
    <<"(", "define", " ", "add5", " ", "(", "make-adder", " ", "5", ")",
      ")">>

\* (add5 3)
LnAdd5 ==
    <<"(", "add5", " ", "3", ")">>

\* ((lambda (d) (set! n d)) 3)
LnSetOuter ==
    <<"(", "(", "lambda", " ", "(", "d", ")", " ", "(", "set!", " ", "n",
      " ", "d", ")", ")", " ", "3", ")">>

\* ((lambda (n) ((lambda (d) (set! n d)) 4)) 5)
LnSetNearest ==
    <<"(", "(", "lambda", " ", "(", "n", ")", " ", "(", "(", "lambda",
      " ", "(", "d", ")", " ", "(", "set!", " ", "n", " ", "d", ")", ")",
      " ", "4", ")", ")", " ", "5", ")">>

\* ((lambda (v) (begin (define n v) n)) 9)
LnDefineLocal ==
    <<"(", "(", "lambda", " ", "(", "v", ")", " ", "(", "begin", " ", "(",
      "define", " ", "n", " ", "v", ")", " ", "n", ")", ")", " ", "9",
      ")">>

\* y
LnY ==
    <<"y">>

\* (set! y 1)
LnSetY ==
    <<"(", "set!", " ", "y", " ", "1", ")">>

\* ((lambda (d) (set! y d)) 1)
LnSetYInner ==
    <<"(", "(", "lambda", " ", "(", "d", ")", " ", "(", "set!", " ", "y",
      " ", "d", ")", ")", " ", "1", ")">>

\* ((begin (set! n 9) +) n)
LnOperatorEffect ==
    <<"(", "(", "begin", " ", "(", "set!", " ", "n", " ", "9", ")", " ",
      "+", ")", " ", "n", ")">>

\* ((lambda z z) 1 2 3)
LnVariadic ==
    <<"(", "(", "lambda", " ", "z", " ", "z", ")", " ", "1", " ", "2",
      " ", "3", ")">>

\* ((lambda (d) (begin (set! n (begin (define n 1) d)) n)) 7)
LnSetAfterDefine ==
    <<"(", "(", "lambda", " ", "(", "d", ")", " ", "(", "begin", " ", "(",
      "set!", " ", "n", " ", "(", "begin", " ", "(", "define", " ", "n",
      " ", "1", ")", " ", "d", ")", ")", " ", "n", ")", ")", " ", "7",
      ")">>

\* ((lambda (x) x))
LnTooFew ==
    <<"(", "(", "lambda", " ", "(", "x", ")", " ", "x", ")", ")">>

\* ((lambda (x) x) 1 2)
LnTooMany ==
    <<"(", "(", "lambda", " ", "(", "x", ")", " ", "x", ")", " ", "1",
      " ", "2", ")">>

\* (+ 1
LnUnclosed ==
    <<"(", "+", " ", "1">>

\* (if 1 2 3)
LnIfNumber ==
    <<"(", "if", " ", "1", " ", "2", " ", "3", ")">>

\* (1 2)
LnApplyNumber ==
    <<"(", "1", " ", "2", ")">>

InputLines ==
    {LnDefN, LnSetN, LnN, LnDefGetn,
     LnGetn, LnCallerBindsN, LnDefMakeAdder, LnDefAdd5,
     LnAdd5, LnSetOuter, LnSetNearest, LnDefineLocal,
     LnY, LnSetY, LnSetYInner, LnOperatorEffect,
     LnVariadic, LnSetAfterDefine, LnTooFew, LnTooMany,
     LnUnclosed, LnIfNumber, LnApplyNumber}

SpacedLines == {s \in InputLines : Spaced(s)}

(***************************************************************************)
(* Repl: one turn of the loop reads a line, evaluates it in globalenv and  *)
(* prints the result; a panic on the way ends the process, as nothing      *)
(* recovers it.  At end of input Repl prints "Bye." and exits.             *)
(***************************************************************************)
ReplLine(input) ==
    LET p == read(input)
        r == IF p.panic # "" THEN Panic(p.panic, heap, p.log)
             ELSE eval(p.e, 1, heap, p.log)
    IN  /\ line' = input
        /\ heap' = r.h
        /\ log' = r.log
        /\ fault' = r.panic
        /\ status' = IF r.panic # "" THEN "panicked" ELSE "running"
        /\ out' = IF r.panic # "" THEN <<>> ELSE String(r.v)

Repl ==
    /\ status = "running"
    /\ nread < MaxLines
    /\ \E input \in SpacedLines : ReplLine(input)
    /\ nread' = nread + 1
    /\ UNCHANGED <<tokens, parsed>>

Bye ==
    /\ status = "running"
    /\ status' = "exited"
    /\ UNCHANGED <<heap, fault, line, out, log, nread, tokens, parsed>>

Init ==
    /\ heap = <<globalenv>>
    /\ status = "running"
    /\ fault = ""
    /\ line = <<>>
    /\ out = <<>>
    /\ log = <<>>
    /\ nread = 0
    /\ tokens = <<>>
    /\ parsed = <<>>

Next == Repl \/ Bye

Spec == Init /\ [][Next]_vars

(***************************************************************************)
(* The reader on its own: readFrom applied to a token list.                *)
(***************************************************************************)
Alphabet == {"(", ")", "x", "1"}
TokenLists == UNION {[1..n -> Alphabet] : n \in 0..MaxTokens}

InitRead ==
    /\ heap = <<globalenv>>
    /\ status = "running"
    /\ fault = ""
    /\ line = <<>>
    /\ out = <<>>
    /\ log = <<>>
    /\ nread = 0
    /\ tokens \in TokenLists
    /\ parsed = <<>>

ReadTokens ==
    /\ parsed = <<>>
    /\ parsed' = <<readFrom(tokens, <<>>)>>
    /\ UNCHANGED <<heap, status, fault, line, out, log, nread, tokens>>

NextRead == ReadTokens

SpecRead == InitRead /\ [][NextRead]_vars

(***************************************************************************)
(* Properties.  Turn holds of a step in which Repl handled one line: line' *)
(* is the line, heap the environments before it and heap' those after it.  *)
(***************************************************************************)
Turn == nread' = nread + 1
Global(s) == heap[1].vars[s]
GlobalBinds(s) == s \in DOMAIN heap[1].vars
Running == status = "running"

\* C1: a closure's body runs in a fresh environment whose parent is the
\* environment the lambda was evaluated in, never the caller's, and that
\* environment is the one the closure shares with everything else that
\* changes it.  getn is (lambda (u) n), made at top level: whenever it is
\* called, directly or from inside a call that binds n to 7, it returns the
\* value n has in globalenv at that moment, and the only new environment of
\* the call binds u with globalenv as parent.  add5 is (make-adder 5): called
\* with 3 it returns 8 whatever n is in globalenv, in a fresh environment whose
\* parent is the one add5 captured.
ClosureSeesCapturedEnvironment ==
    [][Turn =>
        /\ (line' = LnGetn /\ GlobalBinds("getn") /\ GlobalBinds("n")) =>
              /\ status' = "running"
              /\ out' = String(Global("n"))
              /\ heap' = Append(heap, env("u" :> number(0), 1))
        /\ (line' = LnCallerBindsN /\ GlobalBinds("getn") /\ GlobalBinds("n")) =>
              /\ status' = "running"
              /\ out' = String(Global("n"))
              /\ heap' = heap \o <<env("n" :> number(7), 1),
                                   env("u" :> number(7), 1)>>
        /\ (line' = LnAdd5 /\ GlobalBinds("add5")) =>
              /\ status' = "running"
              /\ out' = String(number(3 + heap[Global("add5").en].vars["n"].n))
              /\ out' = String(number(8))
              /\ heap' = Append(heap, env("x" :> number(3), Global("add5").en))
    ]_vars

\* getn, called from a caller that binds n to 7, has answered 2: the value
\* (set! n 2) gave the n of globalenv
ClosureSawLaterSet ==
    /\ Running
    /\ line = LnCallerBindsN
    /\ out = String(number(2))

\* C2: set! of n evaluated where n is not bound locally changes the n of the
\* nearest enclosing environment that binds it and nothing else.  In
\* ((lambda (d) (set! n d)) 3) that is globalenv; in
\* ((lambda (n) ((lambda (d) (set! n d)) 4)) 5) it is the environment of the
\* outer call, and globalenv keeps its own n.  The environment set! ran in
\* holds d alone afterwards.
SetChangesNearestBinderOnly ==
    [][Turn =>
        /\ (line' = LnSetOuter /\ GlobalBinds("n")) =>
              /\ status' = "running"
              /\ heap' = Append([heap EXCEPT ![1].vars["n"] = number(3)],
                                env("d" :> number(3), 1))
        /\ (line' = LnSetNearest) =>
              /\ status' = "running"
              /\ heap' = heap \o <<env("n" :> number(4), 1),
                                   env("d" :> number(4), Len(heap) + 1)>>
    ]_vars

\* set! ran two environments below globalenv, which binds n too and kept it
SetPassedOverFartherBinder ==
    /\ Running
    /\ line = LnSetNearest
    /\ GlobalBinds("n")
    /\ Global("n") # number(4)
    /\ heap[Len(heap) - 1].vars["n"] = number(4)

\* C3: define writes the current environment only.  In
\* ((lambda (v) (begin (define n v) n)) 9) the call's environment gets n = 9,
\* the lookup that follows yields 9 and every environment that existed before
\* is unchanged, globalenv's n included; (define n 1) at top level creates or
\* overwrites the n of globalenv and changes no other binding; n typed next
\* yields the value bound.
DefineWritesCurrentEnvironment ==
    [][Turn =>
        /\ (line' = LnDefineLocal) =>
              /\ status' = "running"
              /\ out' = String(number(9))
              /\ heap' = Append(heap,
                                env(("v" :> number(9)) @@ ("n" :> number(9)), 1))
        /\ (line' = LnDefN) =>
              /\ status' = "running"
              /\ Len(heap') = Len(heap)
              /\ \A i \in 2..Len(heap) : heap'[i] = heap[i]
              /\ heap'[1].outer = heap[1].outer
              /\ DOMAIN heap'[1].vars = DOMAIN heap[1].vars \cup {"n"}
              /\ heap'[1].vars["n"] = number(1)
              /\ \A s \in DOMAIN heap[1].vars \ {"n"} :
                    heap'[1].vars[s] = heap[1].vars[s]
        /\ (line' = LnN /\ GlobalBinds("n")) =>
              /\ status' = "running"
              /\ out' = String(Global("n"))
              /\ heap' = heap
    ]_vars

\* define ran in a call's environment while globalenv bound n to another value
DefineShadowedGlobal ==
    /\ Running
    /\ line = LnDefineLocal
    /\ GlobalBinds("n")
    /\ Global("n") # number(9)
    /\ heap[Len(heap)].vars["n"] = number(9)

\* C4: a symbol no environment of the chain binds, evaluated or assigned with
\* set!, ends in the panic of the nil dereference in Find and in no value;
\* every environment that existed is unchanged, and the environment of the
\* call set! ran in holds its parameter alone: set! has created no binding.
UnboundSymbolPanics ==
    [][(/\ Turn
        /\ \/ line' \in {LnY, LnSetY, LnSetYInner}
           \/ line' \in {LnN, LnSetN, LnSetOuter} /\ ~GlobalBinds("n")) =>
        /\ status' = "panicked"
        /\ fault' = NilDeref
        /\ out' = <<>>
        /\ line' \in {LnY, LnSetY, LnN, LnSetN} => heap' = heap
        /\ line' = LnSetYInner =>
              heap' = Append(heap, env("d" :> number(1), 1))
        /\ line' = LnSetOuter =>
              heap' = Append(heap, env("d" :> number(3), 1))
    ]_vars

\* set! of the unbound y ran one environment below globalenv, after other lines
UnboundSetInsideCall ==
    /\ status = "panicked"
    /\ line = LnSetYInner
    /\ nread > 1
    /\ Len(heap) > 2

\* C5: a closure with a fixed parameter list applied to fewer or to more
\* arguments than it has parameters ends in a fatal error, without a value.
ArityMismatchIsFatal ==
    line \in {LnTooFew, LnTooMany} => status = "panicked"

\* C6: the operator of an application is evaluated before its operands, so
\* that in ((begin (set! n 9) +) n) the operand n is already 9.
OperatorEvaluatedBeforeOperands ==
    (line = LnOperatorEffect /\ Running) => out = String(number(9))

\* C7: a lambda whose parameter specification is one symbol binds it to the
\* list of all arguments: ((lambda z z) 1 2 3) is the list (1 2 3).
VariadicLambdaCollectsArguments ==
    line = LnVariadic =>
        /\ Running
        /\ out = String(List(<<number(1), number(2), number(3)>>))

\* C8: an error on one line does not end the session: the loop goes on to
\* the next line.
SessionSurvivesErrors ==
    status # "panicked"

\* C10: set! evaluates the value first and looks the symbol up afterwards, so
\* that in ((lambda (d) (begin (set! n (begin (define n 1) d)) n)) 7) the n
\* that define has just put in the call's environment receives 7.
SetLooksUpAfterValue ==
    (line = LnSetAfterDefine /\ Running) =>
        /\ heap[Len(heap)].vars["n"] = number(7)
        /\ out = String(number(7))

(***************************************************************************)
(* Properties of the reader.                                               *)
(***************************************************************************)
\* number of "(" minus number of ")" among the first k tokens
Depth(toks, k) ==
    Cardinality({i \in 1..k : toks[i] = "("})
        - Cardinality({i \in 1..k : toks[i] = ")"})

\* the tokens end before the form they start is complete
Unfinished(toks) ==
    \/ toks = <<>>
    \/ toks[1] = "(" /\ \A k \in 1..Len(toks) : Depth(toks, k) > 0

=============================================================================
